---- MODULE Spec2Model ----
(***************************************************************************)
(* A model of portmap's routing/cleanup subsystem:                         *)
(*   - the hosts sentinel codec          (src/src/hosts/parser.rs)         *)
(*   - the hosts manager and sync_cleanup (src/src/hosts/manager.rs)       *)
(*   - the lifecycle of the default invocation (src/src/main.rs,           *)
(*     src/src/cleanup.rs, src/src/proxy/server.rs, src/src/tui/terminal.rs)*)
(*                                                                         *)
(* Text is modelled at the granularity the code looks at it.  A line is    *)
(* [pad, sep, toks]: whether it carries leading/trailing whitespace, the   *)
(* whitespace that separates its tokens, and its whitespace-free tokens.   *)
(* A file content is a sequence of [text, eol]: a line and the terminator  *)
(* that follows it ("lf", "crlf", or "none" for an unterminated last line).*)
(***************************************************************************)
EXTENDS Integers, Sequences, FiniteSets, TLC

VARIABLES
    \* ---- codec level (HostsFile values, no I/O)
    content,    \* the text that is going to be handed to HostsFile::parse
    hosts,      \* the HostsFile value, NoHosts before parse ran
    clast,      \* the last codec call: its arguments, result and the value before it
    cops,       \* number of mutating codec calls made so far
    \* ---- manager level (one caller, one call at a time)
    file,       \* the hosts file on disk
    mlast,      \* the last manager call: op, domain, io outcome, result, content before it
    mprev,      \* the manager call before the last one (op, domain, io, ret)
    mops,       \* number of manager calls made so far
    file0,      \* the hosts file as it was before the first call
    \* ---- process level (the default invocation: main.rs:40-83)
    shutdown,   \* the value of the shutdown watch channel (main.rs:48)
    mappings,   \* the value of the mappings watch channel (main.rs:54)
    main,       \* the main task: where it is and its locals
    sig,        \* the two signal tasks of spawn_signal_handler
    hook,       \* the panic hook running on a thread other than main's
    proxy,      \* the proxy task
    cleanups,   \* how many hosts-file cleanups have run to their end
    hist,       \* what has happened: signals delivered, panics, how the run ended
    conns       \* the connection tasks the accept loop has spawned (server.rs:30)

codecVars == <<content, hosts, clast, cops>>
mgrVars == <<mlast, mprev, mops>>
procVars == <<shutdown, mappings, main, sig, hook, proxy, cleanups, hist, conns>>
vars == <<content, hosts, clast, cops, file, mlast, mprev, mops, file0,
          shutdown, mappings, main, sig, hook, proxy, cleanups, hist, conns>>

----------------------------------------------------------------------------
(* Bounds of the model *)

\* longest text handed to the codec, in lines
MaxCodecLines == 4
\* mutating codec calls per behaviour
MaxCodecOps == 2
\* longest initial hosts file of the manager, in lines
MaxLines == 4
\* manager calls per behaviour
MaxMgrOps == 2
\* connections the accept loop takes per run
MaxConns == 2

----------------------------------------------------------------------------
(* Text *)

\* parser.rs:1
SENTINEL_START ==
    [pad |-> FALSE, sep |-> "sp",
     toks |-> <<"#", "portmap-start", "(DO", "NOT", "EDIT", "-", "managed", "by", "portmap)">>]

\* parser.rs:2
SENTINEL_END == [pad |-> FALSE, sep |-> "sp", toks |-> <<"#", "portmap-end">>]

\* manager.rs:37: the address every managed entry is bound to
LOOPBACK == "127.0.0.1"

\* tokens that begin with '#'
HashTokens == {"#", "#tag"}

\* str::trim: strips leading and trailing whitespace
Trim(l) == [l EXCEPT !.pad = FALSE]

\* str::is_empty on a trimmed line
IsEmptyLine(l) == l.toks = <<>>

\* str::starts_with('#') on a trimmed line
StartsWithHash(l) == l.toks # <<>> /\ l.toks[1] \in HashTokens

\* str::split_whitespace
SplitWhitespace(l) == l.toks

\* format!("{}\t{}", ip, domain) as a line; an empty string leaves the tab at an
\* edge of the line, where it is surrounding whitespace
FormatEntry(e) ==
    LET ts == SelectSeq(<<e.ip, e.domain>>, LAMBDA t : t # "")
    IN  [pad |-> Len(ts) < 2, sep |-> "tab", toks |-> ts]

\* str::lines: the lines of a text without their terminators
Lines(c) == [i \in 1..Len(c) |-> c[i].text]

\* a line followed by '\n'
Terminated(ls) == [i \in 1..Len(ls) |-> [text |-> ls[i], eol |-> "lf"]]

\* Iterator::position: index of the first element satisfying P, 0 for None
Position(s, P(_)) ==
    IF \E i \in 1..Len(s) : P(s[i])
    THEN CHOOSE i \in 1..Len(s) : P(s[i]) /\ \A j \in 1..(i - 1) : ~P(s[j])
    ELSE 0

IsStartLine(l) == Trim(l) = SENTINEL_START
IsEndLine(l) == Trim(l) = SENTINEL_END

----------------------------------------------------------------------------
(* HostsFile: parser.rs *)

NoHosts == [before |-> <<>>, entries |-> <<>>, after |-> <<>>, parsed |-> FALSE]

MkHosts(b, e, a) == [before |-> b, entries |-> e, after |-> a, parsed |-> TRUE]

\* parser.rs:39-51: the entries of the lines between the markers
BlockEntries(block) ==
    LET keep == SelectSeq(block, LAMBDA l :
                    /\ ~(IsEmptyLine(Trim(l)) \/ StartsWithHash(Trim(l)))
                    /\ Len(SplitWhitespace(Trim(l))) >= 2)
    IN  [i \in 1..Len(keep) |->
            [ip |-> SplitWhitespace(Trim(keep[i]))[1],
             domain |-> SplitWhitespace(Trim(keep[i]))[2]]]

\* parse without the test that the end marker comes after the start marker
HostsFile_parse_NoOrderCheck(c) ==
    LET lines == Lines(c)
        start_idx == Position(lines, IsStartLine)
        end_idx == Position(lines, IsEndLine)
    IN  IF start_idx # 0 /\ end_idx # 0
        THEN MkHosts(SubSeq(lines, 1, start_idx - 1),
                     BlockEntries(SubSeq(lines, start_idx + 1, end_idx - 1)),
                     SubSeq(lines, end_idx + 1, Len(lines)))
        ELSE MkHosts(lines, <<>>, <<>>)

\* parser.rs:23-70
HostsFile_parse(c) ==
    LET lines == Lines(c)
        start_idx == Position(lines, IsStartLine)
        end_idx == Position(lines, IsEndLine)
    IN  IF start_idx # 0 /\ end_idx # 0 /\ start_idx < end_idx
        THEN MkHosts(SubSeq(lines, 1, start_idx - 1),
                     BlockEntries(SubSeq(lines, start_idx + 1, end_idx - 1)),
                     SubSeq(lines, end_idx + 1, Len(lines)))
        ELSE MkHosts(lines, <<>>, <<>>)

\* serialize that writes the markers even around no entries
HostsFile_serialize_AlwaysBlock(h) ==
    Terminated(h.before)
    \o Terminated(<<SENTINEL_START>>
                  \o [i \in 1..Len(h.entries) |-> FormatEntry(h.entries[i])]
                  \o <<SENTINEL_END>>)
    \o Terminated(h.after)

\* parser.rs:73-98
HostsFile_serialize(h) ==
    Terminated(h.before)
    \o (IF h.entries # <<>>
        THEN Terminated(<<SENTINEL_START>>
                        \o [i \in 1..Len(h.entries) |-> FormatEntry(h.entries[i])]
                        \o <<SENTINEL_END>>)
        ELSE <<>>)
    \o Terminated(h.after)

HasDomain(h, domain) == \E i \in 1..Len(h.entries) : h.entries[i].domain = domain

\* parser.rs:101-110: the HostsFile afterwards and the returned bool
HostsFile_add_entry(h, domain, ip) ==
    IF HasDomain(h, domain)
    THEN [self |-> h, ret |-> FALSE]
    ELSE [self |-> [h EXCEPT !.entries = Append(@, [ip |-> ip, domain |-> domain])],
          ret |-> TRUE]

\* parser.rs:113-117
HostsFile_remove_entry(h, domain) ==
    LET kept == SelectSeq(h.entries, LAMBDA e : e.domain # domain)
    IN  [self |-> [h EXCEPT !.entries = kept], ret |-> Len(kept) < Len(h.entries)]

\* parser.rs:120-122
HostsFile_remove_all(h) == [h EXCEPT !.entries = <<>>]

----------------------------------------------------------------------------
(* The texts and names the operations are tried on *)

PaddedStart == [SENTINEL_START EXCEPT !.pad = TRUE]
HostLine == [pad |-> FALSE, sep |-> "tab", toks |-> <<LOOPBACK, "localhost">>]
HandEntry == [pad |-> TRUE, sep |-> "sp", toks |-> <<"10.0.0.1", "a.localhost", "alias">>]
BlankLine == [pad |-> FALSE, sep |-> "sp", toks |-> <<>>]
JunkLine == [pad |-> FALSE, sep |-> "sp", toks |-> <<"junk">>]

LineAlphabet ==
    {SENTINEL_START, SENTINEL_END, PaddedStart, HostLine, HandEntry,
     BlankLine, JunkLine}

Domains == {"a.localhost", "b.localhost"}

BoundedSeqs(S, n) == UNION {[1..k -> S] : k \in 0..n}

\* a text whose lines all end in '\n', all end in "\r\n", or whose last line
\* is unterminated (which an empty last line cannot be)
Styled(ls, style) ==
    [i \in 1..Len(ls) |->
        [text |-> ls[i],
         eol |-> IF style = "nofinal"
                 THEN (IF i = Len(ls) THEN "none" ELSE "lf")
                 ELSE style]]

Texts(alphabet, n) ==
    {Styled(ls, "lf") : ls \in BoundedSeqs(alphabet, n)}
    \cup {Styled(ls, "crlf") : ls \in BoundedSeqs(alphabet, n) \ {<<>>}}
    \cup {Styled(ls, "nofinal") :
            ls \in {x \in BoundedSeqs(alphabet, n) : x # <<>> /\ x[Len(x)] # BlankLine}}

----------------------------------------------------------------------------
(* Codec level: parse a text, then call the mutating operations on it *)

NoCall == [op |-> "none"]

\* the slots for the connection tasks of a run
Handlers == 1..MaxConns

\* a slot no connection has taken: no request, no lookup key, no snapshot of
\* the table, no forwarded request, no response
FreeConn ==
    [pc |-> "free", req |-> NoCall, key |-> NoCall, snap |-> <<>>,
     fwd |-> NoCall, sent |-> 0, up |-> NoCall, resp |-> NoCall]

MgrIdle ==
    /\ mlast = NoCall
    /\ mprev = NoCall
    /\ mops = 0

\* main.rs:48-66: the state the default invocation starts its tasks in
TasksStart ==
    /\ shutdown = FALSE
    /\ main = [pc |-> "start", new |-> <<>>, then |-> "", cleanup |-> FALSE,
               req |-> NoCall, list |-> <<>>, ops |-> 0, result |-> ""]
    /\ sig = [k \in {"ctrl_c", "sigterm"} |-> [pc |-> "wait", new |-> <<>>]]
    /\ hook = [pc |-> "idle", new |-> <<>>]
    /\ proxy = [pc |-> "bind"]
    /\ cleanups = 0
    /\ hist = [signals |-> {}, panics |-> 0, exit |-> ""]

ProcStart ==
    /\ TasksStart
    /\ mappings = <<>>
    /\ conns = [h \in Handlers |-> FreeConn]

CodecIdle ==
    /\ content = <<>>
    /\ hosts = NoHosts
    /\ clast = NoCall
    /\ cops = 0

InitCodec ==
    /\ content \in Texts(LineAlphabet, MaxCodecLines)
    /\ hosts = NoHosts
    /\ clast = NoCall
    /\ cops = 0
    /\ file = <<>>
    /\ file0 = <<>>
    /\ MgrIdle
    /\ ProcStart

CodecParse ==
    /\ ~hosts.parsed
    /\ hosts' = HostsFile_parse(content)
    /\ clast' = [op |-> "parse", content |-> content]
    /\ content' = <<>>
    /\ UNCHANGED cops
    /\ UNCHANGED <<file, file0, mgrVars, procVars>>

CodecAddEntry(domain, ip) ==
    /\ hosts.parsed
    /\ cops < MaxCodecOps
    /\ LET r == HostsFile_add_entry(hosts, domain, ip)
       IN  /\ hosts' = r.self
           /\ clast' = [op |-> "add_entry", domain |-> domain, ip |-> ip,
                        ret |-> r.ret, old |-> hosts]
    /\ cops' = cops + 1
    /\ UNCHANGED content
    /\ UNCHANGED <<file, file0, mgrVars, procVars>>

CodecRemoveEntry(domain) ==
    /\ hosts.parsed
    /\ cops < MaxCodecOps
    /\ LET r == HostsFile_remove_entry(hosts, domain)
       IN  /\ hosts' = r.self
           /\ clast' = [op |-> "remove_entry", domain |-> domain,
                        ret |-> r.ret, old |-> hosts]
    /\ cops' = cops + 1
    /\ UNCHANGED content
    /\ UNCHANGED <<file, file0, mgrVars, procVars>>

CodecRemoveAll ==
    /\ hosts.parsed
    /\ cops < MaxCodecOps
    /\ hosts' = HostsFile_remove_all(hosts)
    /\ clast' = [op |-> "remove_all", old |-> hosts]
    /\ cops' = cops + 1
    /\ UNCHANGED content
    /\ UNCHANGED <<file, file0, mgrVars, procVars>>

NextCodec ==
    \/ CodecParse
    \/ \E domain \in Domains : CodecAddEntry(domain, LOOPBACK)
    \/ \E domain \in Domains : CodecRemoveEntry(domain)
    \/ CodecRemoveAll

SpecCodec == InitCodec /\ [][NextCodec]_vars

----------------------------------------------------------------------------
(* HostsManager and sync_cleanup: manager.rs *)

(* The outcome of the file system calls of one manager call: all succeed,     *)
(* read_to_string fails, fs::write fails to open the file (which is left as   *)
(* it was), or fs::write fails after it truncated the file and wrote          *)
(* `written` lines of the new content.                                        *)
IoOk == [kind |-> "ok", written |-> 0]
IoReadErr == [kind |-> "read_err", written |-> 0]
IoOpenErr == [kind |-> "open_err", written |-> 0]
IoWriteErr(k) == [kind |-> "write_err", written |-> k]

Min(a, b) == IF a < b THEN a ELSE b

\* std::fs::write(path, new): create-and-truncate, then write_all
FsWrite(f, new, io) ==
    CASE io.kind = "open_err" ->
            [file |-> f, ok |-> FALSE, touched |-> FALSE]
      [] io.kind = "write_err" /\ new # <<>> ->
            [file |-> SubSeq(new, 1, Min(io.written, Len(new) - 1)),
             ok |-> FALSE, touched |-> TRUE]
      [] OTHER ->
            [file |-> new, ok |-> TRUE, touched |-> TRUE]

\* what a manager call hands back to the model: the file afterwards, the
\* returned value, whether the file was opened for writing, and the HostsFile
\* the call built (NoHosts when the read failed)
MgrResult(f, ret, wrote, h) == [file |-> f, ret |-> ret, wrote |-> wrote, hosts |-> h]

\* manager.rs:34-42
HostsManager_add_entry(f, domain, io) ==
    IF io.kind = "read_err"
    THEN MgrResult(f, "Err", FALSE, NoHosts)
    ELSE LET r == HostsFile_add_entry(HostsFile_parse(f), domain, LOOPBACK)
             w == FsWrite(f, HostsFile_serialize(r.self), io)
         IN  IF ~r.ret
             THEN MgrResult(f, "Ok(false)", FALSE, r.self)
             ELSE MgrResult(w.file, IF w.ok THEN "Ok(true)" ELSE "Err", w.touched, r.self)

\* remove_entry that writes the file back whether or not an entry was removed
HostsManager_remove_entry_AlwaysWrite(f, domain, io) ==
    IF io.kind = "read_err"
    THEN MgrResult(f, "Err", FALSE, NoHosts)
    ELSE LET r == HostsFile_remove_entry(HostsFile_parse(f), domain)
             w == FsWrite(f, HostsFile_serialize(r.self), io)
         IN  MgrResult(w.file,
                       IF ~w.ok THEN "Err" ELSE IF r.ret THEN "Ok(true)" ELSE "Ok(false)",
                       w.touched, r.self)

\* manager.rs:45-53
HostsManager_remove_entry(f, domain, io) ==
    IF io.kind = "read_err"
    THEN MgrResult(f, "Err", FALSE, NoHosts)
    ELSE LET r == HostsFile_remove_entry(HostsFile_parse(f), domain)
             w == FsWrite(f, HostsFile_serialize(r.self), io)
         IN  IF ~r.ret
             THEN MgrResult(f, "Ok(false)", FALSE, r.self)
             ELSE MgrResult(w.file, IF w.ok THEN "Ok(true)" ELSE "Err", w.touched, r.self)

\* manager.rs:56-62
HostsManager_restore_all(f, io) ==
    IF io.kind = "read_err"
    THEN MgrResult(f, "Err", FALSE, NoHosts)
    ELSE LET h == HostsFile_remove_all(HostsFile_parse(f))
             w == FsWrite(f, HostsFile_serialize(h), io)
         IN  MgrResult(w.file, IF w.ok THEN "Ok(())" ELSE "Err", w.touched, h)

\* sync_cleanup that hands a failed write back to its caller
sync_cleanup_Propagates(f, io) ==
    IF io.kind = "read_err"
    THEN MgrResult(f, "()", FALSE, NoHosts)
    ELSE LET h == HostsFile_remove_all(HostsFile_parse(f))
             w == FsWrite(f, HostsFile_serialize(h), io)
         IN  MgrResult(w.file, IF w.ok THEN "()" ELSE "Err", w.touched, h)

\* manager.rs:72-79: returns nothing, whatever happens
sync_cleanup(f, io) ==
    IF io.kind = "read_err"
    THEN MgrResult(f, "()", FALSE, NoHosts)
    ELSE LET h == HostsFile_remove_all(HostsFile_parse(f))
             w == FsWrite(f, HostsFile_serialize(h), io)
         IN  MgrResult(w.file, "()", w.touched, h)

----------------------------------------------------------------------------
(* Manager level: one caller makes one call after the other on a hosts file *)

MgrAlphabet == {SENTINEL_START, SENTINEL_END, HostLine, HandEntry}

InitMgr ==
    /\ file \in Texts(MgrAlphabet, MaxLines)
    /\ file0 = file
    /\ mlast = NoCall
    /\ mprev = NoCall
    /\ mops = 0
    /\ CodecIdle
    /\ ProcStart

\* what a call leaves behind for inspection
MgrTrace(op, domain, io, r) ==
    /\ file' = r.file
    /\ mlast' = [op |-> op, domain |-> domain, io |-> io.kind, ret |-> r.ret,
                 wrote |-> r.wrote, hosts |-> r.hosts, pre |-> file]
    /\ mprev' = IF mlast = NoCall THEN NoCall
                ELSE [op |-> mlast.op, domain |-> mlast.domain,
                      io |-> mlast.io, ret |-> mlast.ret]
    /\ mops' = mops + 1

MgrAddEntry(domain, io) ==
    /\ mops < MaxMgrOps
    /\ MgrTrace("add_entry", domain, io, HostsManager_add_entry(file, domain, io))
    /\ UNCHANGED <<file0, codecVars, procVars>>

MgrRemoveEntry(domain, io) ==
    /\ mops < MaxMgrOps
    /\ MgrTrace("remove_entry", domain, io, HostsManager_remove_entry(file, domain, io))
    /\ UNCHANGED <<file0, codecVars, procVars>>

MgrRestoreAll(io) ==
    /\ mops < MaxMgrOps
    /\ MgrTrace("restore_all", "", io, HostsManager_restore_all(file, io))
    /\ UNCHANGED <<file0, codecVars, procVars>>

MgrSyncCleanup(io) ==
    /\ mops < MaxMgrOps
    /\ MgrTrace("sync_cleanup", "", io, sync_cleanup(file, io))
    /\ UNCHANGED <<file0, codecVars, procVars>>

NextMgr ==
    \/ \E domain \in Domains : MgrAddEntry(domain, IoOk)
    \/ \E domain \in Domains : MgrRemoveEntry(domain, IoOk)
    \/ MgrRestoreAll(IoOk)
    \/ MgrSyncCleanup(IoOk)

SpecMgr == InitMgr /\ [][NextMgr]_vars

----------------------------------------------------------------------------
(* What the claims speak of, stated on the text itself *)

\* l is the marker m, possibly with whitespace around it
MarkerLine(l, m) == l.toks = m.toks /\ l.sep = m.sep

IsMarker(l) == MarkerLine(l, SENTINEL_START) \/ MarkerLine(l, SENTINEL_END)

\* the index of the first line that is the marker m (empty when there is none)
FirstMarker(lines, m) ==
    {i \in 1..Len(lines) :
        /\ MarkerLine(lines[i], m)
        /\ \A j \in 1..(i - 1) : ~MarkerLine(lines[j], m)}

\* the well-formed sentinel block: the first start marker and the first end
\* marker, when the end marker comes after the start marker
BlockBounds(lines) ==
    {b \in FirstMarker(lines, SENTINEL_START) \X FirstMarker(lines, SENTINEL_END) :
        b[1] < b[2]}

\* a line of the block that stands for an entry
EntryLike(l) == Len(l.toks) >= 2 /\ l.toks[1] \notin HashTokens

\* the lines outside the well-formed block: all of them when there is none
Outside(lines) ==
    IF BlockBounds(lines) = {} THEN lines
    ELSE LET b == CHOOSE b \in BlockBounds(lines) : TRUE
         IN  SubSeq(lines, 1, b[1] - 1) \o SubSeq(lines, b[2] + 1, Len(lines))

\* the indices of the entry lines inside the well-formed block
EntryIndices(lines) ==
    UNION {{i \in (b[1] + 1)..(b[2] - 1) : EntryLike(lines[i])} : b \in BlockBounds(lines)}

\* the domains that have a managed entry in a text
ManagedDomains(c) == {Lines(c)[i].toks[2] : i \in EntryIndices(Lines(c))}

\* the line the manager writes for a domain
ManagedLine(domain) == FormatEntry([ip |-> LOOPBACK, domain |-> domain])

CountLines(c, l) == Cardinality({i \in 1..Len(c) : c[i].text = l})

RECURSIVE IsSubseq(_, _)
IsSubseq(a, b) ==
    IF a = <<>> THEN TRUE
    ELSE IF b = <<>> THEN FALSE
    ELSE IF Head(a) = Head(b) THEN IsSubseq(Tail(a), Tail(b))
    ELSE IsSubseq(a, Tail(b))

Cleanups == {"restore_all", "sync_cleanup"}

----------------------------------------------------------------------------
(* Claims at the codec and manager level *)

\* C3: for any HostsFile h obtained by parsing any content and applying any
\* sequence of add_entry/remove_entry/remove_all, parse(serialize(h)) has the
\* same entries as h (and the same before and after).  Stated here for the
\* entries, which is the part of the claim a HostsFile with no entries cannot
\* decide.
C3_RoundTripEntries ==
    hosts.parsed => HostsFile_parse(HostsFile_serialize(hosts)).entries = hosts.entries

\* C8: parse is fail-open.  Without a start marker, without an end marker, or
\* when the first end marker does not come after the first start marker, every
\* line is in before and entries and after are empty; otherwise before is the
\* lines ahead of the first start marker, after the lines behind the first end
\* marker, and entries the ip/domain of the non-blank, non-comment lines with
\* at least two tokens between them, in order.
C8_ParseFailOpen ==
    clast.op = "parse" =>
        LET lines == Lines(clast.content)
            idx == EntryIndices(lines)
        IN  IF BlockBounds(lines) = {}
            THEN /\ hosts.before = lines
                 /\ hosts.entries = <<>>
                 /\ hosts.after = <<>>
            ELSE /\ \A b \in BlockBounds(lines) :
                        /\ hosts.before = SubSeq(lines, 1, b[1] - 1)
                        /\ hosts.after = SubSeq(lines, b[2] + 1, Len(lines))
                 /\ Len(hosts.entries) = Cardinality(idx)
                 /\ \A i \in idx :
                        LET k == Cardinality({j \in idx : j <= i})
                        IN  hosts.entries[k] =
                                [ip |-> lines[i].toks[1], domain |-> lines[i].toks[2]]

\* C8 witness: a text has been parsed that has a line before the block and
\* an entry inside it
C8_Witness ==
    /\ clast.op = "parse"
    /\ hosts.before # <<>>
    /\ hosts.entries # <<>>

\* C33: entries never holds two records with the same domain: in every
\* HostsFile that parse produces from any content, and after every add_entry,
\* remove_entry and remove_all.
C33_UniqueEntryDomains ==
    hosts.parsed =>
        \A i, j \in 1..Len(hosts.entries) :
            hosts.entries[i].domain = hosts.entries[j].domain => i = j

\* C2: after add_entry(d) has succeeded on a hosts file with any initial
\* content and sync_cleanup has then run, the sentinel block is gone; stated
\* here for the entry of d, which must not remain.
C2_CleanAfterAdd ==
    (/\ mlast.op = "sync_cleanup"
     /\ mprev.op = "add_entry"
     /\ mprev.ret = "Ok(true)")
        => CountLines(file, ManagedLine(mprev.domain)) = 0

\* C4: every line outside a well-formed sentinel block of the initial file is
\* still present, unchanged and in the same relative order, after any sequence
\* of the manager's add_entry, remove_entry and restore_all.
C4_UnmanagedKept ==
    (/\ mops <= 2
     /\ mlast.op # "sync_cleanup"
     /\ mprev.op # "sync_cleanup")
        => IsSubseq(Outside(Lines(file0)), Lines(file))

\* C5: add_entry(d) applied twice yields exactly one entry for d: when the
\* first call returned true, the second returns false and writes nothing, and
\* the file holds one entry line for d.
C5_AddTwice ==
    (/\ mlast.op = "add_entry"
     /\ mprev.op = "add_entry"
     /\ mprev.domain = mlast.domain
     /\ mprev.ret = "Ok(true)")
        => /\ mlast.ret = "Ok(false)"
           /\ ~mlast.wrote
           /\ file = mlast.pre
           /\ CountLines(file, ManagedLine(mlast.domain)) = 1

\* C6: remove_entry on a domain that has no managed entry returns false and
\* leaves state unchanged: the HostsFile is as parse built it, the manager does
\* not write, and the file is what it was before the call.
C6_RemoveAbsent ==
    (/\ mlast.op = "remove_entry"
     /\ mlast.domain \notin ManagedDomains(mlast.pre))
        => /\ mlast.ret = "Ok(false)"
           /\ mlast.hosts = HostsFile_parse(mlast.pre)
           /\ ~mlast.wrote
           /\ file = mlast.pre

\* C6 witness: remove_entry was called for a domain without an entry on a file
\* whose block holds an entry of another domain
C6_Witness ==
    /\ mlast.op = "remove_entry"
    /\ mlast.domain \notin ManagedDomains(mlast.pre)
    /\ ManagedDomains(mlast.pre) # {}

\* the manager has just removed the last managed entry or run restore_all
LeftNoEntry ==
    \/ mlast.op = "restore_all"
    \/ /\ mlast.op = "remove_entry"
       /\ mlast.ret = "Ok(true)"
       /\ mlast.hosts.entries = <<>>

C10_CleanupIdempotent ==
    (mlast.op \in Cleanups /\ mprev.op \in Cleanups) => file = mlast.pre

----------------------------------------------------------------------------
(* Process level: the default invocation.                                  *)
(*                                                                         *)
(* The main task runs run_tui and then the shutdown sequence of main; the  *)
(* two signal tasks, the proxy task and any panicking task run beside it   *)
(* on the multi-threaded runtime.  Every access to the hosts file is a     *)
(* step of its own: read_to_string is one step and fs::write is one step,  *)
(* so that two read-modify-write sequences can interleave.  When main      *)
(* returns or unwinds, the runtime is dropped: a task that is inside a     *)
(* synchronous stretch of code finishes it first, every other task is      *)
(* dropped where it waits.  Reads and writes succeed at this level.  The   *)
(* periodic status check and a failing accept() change neither the hosts   *)
(* file nor the shutdown flag; they are steps of the serving level.        *)
(***************************************************************************)

\* add and delete requests the control surface makes per run (main.ops counts
\* them while run_tui is in its loop)
MaxTuiOps == 2
\* panics of tasks other than main per run
MaxTaskPanics == 1

\* the hosts files a run starts from
ProcFiles == {Styled(ls, "lf") : ls \in {<<>>, <<HostLine>>, <<SENTINEL_START>>, <<SENTINEL_END>>}}
ProcDomains == {"a.localhost"}
Ports == {9000}
\* input.rs:133-138: what check_port can answer
ProbeResults == {"Active", "PortUnreachable"}
Signals == {"ctrl_c", "sigterm"}

\* manager.rs:57-60 and 76-78: the text a cleanup writes for the text it read
Cleaned(f) == HostsFile_serialize(HostsFile_remove_all(HostsFile_parse(f)))

\* main.rs:45-66 have run and the process has not exited: the panic hook is
\* installed, the signal tasks and the proxy task are spawned
Alive == main.pc \notin {"start", "exited"}

\* a spawned task is inside synchronous code that the runtime lets finish
Busy ==
    \/ \E k \in Signals : sig[k].pc \in {"write", "send"}
    \/ hook.pc = "write"

\* main.rs:29 and 83: main returns or unwinds and the runtime of
\* #[tokio::main] is dropped with it: a connection task that waits for its
\* request or for the upstream response (server.rs:36-38, handler.rs:107) is
\* dropped where it waits and never answers
RuntimeDrop(cs) ==
    [h \in DOMAIN cs |->
        IF cs[h].pc \in {"recv", "upstream"} THEN [cs[h] EXCEPT !.pc = "cut"] ELSE cs[h]]

InitProc ==
    /\ file \in ProcFiles
    /\ file0 = file
    /\ CodecIdle
    /\ MgrIdle
    /\ ProcStart

\* main.rs:40 with main.rs:17-20: the process runs as root; main installs the
\* panic hook, spawns the signal tasks and the proxy task and calls run_tui
MainStart ==
    /\ main.pc = "start"
    /\ main' = [main EXCEPT !.pc = "tui"]
    /\ UNCHANGED <<file, file0, shutdown, mappings, sig, hook, proxy, cleanups, hist>>
    /\ UNCHANGED <<codecVars, mgrVars, conns>>

\* main.rs:40 with main.rs:21-27: the process does not run as root: it runs
\* itself under sudo and exits with that status, or returns the error of doing so
MainEscalate ==
    /\ main.pc = "start"
    /\ main' = [main EXCEPT !.pc = "exited"]
    /\ hist' = [hist EXCEPT !.exit = "escalate"]
    /\ UNCHANGED <<file, file0, shutdown, mappings, sig, hook, proxy, cleanups>>
    /\ UNCHANGED <<codecVars, mgrVars, conns>>

\* terminal.rs:77-79 with input.rs:98-130: Enter in the add popup with input
\* that validate_input accepts; the loop goes on to await check_port
TuiAddRequest(domain, port) ==
    /\ Alive /\ main.pc = "tui" /\ main.ops < MaxTuiOps
    /\ main' = [main EXCEPT !.pc = "probe", !.ops = @ + 1,
                            !.req = [domain |-> domain, port |-> port, status |-> "Unknown"]]
    /\ UNCHANGED <<file, file0, shutdown, mappings, sig, hook, proxy, cleanups, hist>>
    /\ UNCHANGED <<codecVars, mgrVars, conns>>

\* terminal.rs:81 with input.rs:133-138: check_port has answered
TuiProbeDone(st) ==
    /\ Alive /\ main.pc = "probe"
    /\ main' = [main EXCEPT !.pc = "add_read", !.req.status = st]
    /\ UNCHANGED <<file, file0, shutdown, mappings, sig, hook, proxy, cleanups, hist>>
    /\ UNCHANGED <<codecVars, mgrVars, conns>>

\* manager.rs:35-39 under terminal.rs:84: read, parse, add; a duplicate ends
\* the call (terminal.rs:95-97)
MainAddRead ==
    /\ Alive /\ main.pc = "add_read"
    /\ LET r == HostsFile_add_entry(HostsFile_parse(file), main.req.domain, LOOPBACK)
       IN  main' = IF r.ret
                   THEN [main EXCEPT !.pc = "write", !.then = "add_publish",
                                     !.new = HostsFile_serialize(r.self)]
                   ELSE [main EXCEPT !.pc = "tui", !.req = NoCall]
    /\ UNCHANGED <<file, file0, shutdown, mappings, sig, hook, proxy, cleanups, hist>>
    /\ UNCHANGED <<codecVars, mgrVars, conns>>

\* terminal.rs:85-93: Ok(true): push the mapping and publish the list
MainAddPublish ==
    /\ Alive /\ main.pc = "add_publish"
    /\ mappings' = Append(mappings, main.req)
    /\ main' = [main EXCEPT !.pc = "tui", !.req = NoCall]
    /\ UNCHANGED <<file, file0, shutdown, sig, hook, proxy, cleanups, hist>>
    /\ UNCHANGED <<codecVars, mgrVars, conns>>

\* terminal.rs:57-60: 'd' on row i: take the row out of a copy of the list
TuiDelete(i) ==
    /\ Alive /\ main.pc = "tui" /\ main.ops < MaxTuiOps
    /\ i \in 1..Len(mappings)
    /\ main' = [main EXCEPT !.pc = "rm_read", !.ops = @ + 1, !.req = mappings[i],
                            !.list = SubSeq(mappings, 1, i - 1)
                                     \o SubSeq(mappings, i + 1, Len(mappings))]
    /\ UNCHANGED <<file, file0, shutdown, mappings, sig, hook, proxy, cleanups, hist>>
    /\ UNCHANGED <<codecVars, mgrVars, conns>>

\* manager.rs:46-50 under terminal.rs:61: read, parse, remove; the result is
\* dropped by the caller
MainRemoveRead ==
    /\ Alive /\ main.pc = "rm_read"
    /\ LET r == HostsFile_remove_entry(HostsFile_parse(file), main.req.domain)
       IN  main' = IF r.ret
                   THEN [main EXCEPT !.pc = "write", !.then = "rm_publish",
                                     !.new = HostsFile_serialize(r.self)]
                   ELSE [main EXCEPT !.pc = "rm_publish"]
    /\ UNCHANGED <<file, file0, shutdown, mappings, sig, hook, proxy, cleanups, hist>>
    /\ UNCHANGED <<codecVars, mgrVars, conns>>

\* terminal.rs:62-66: publish the list without the row
MainRemovePublish ==
    /\ Alive /\ main.pc = "rm_publish"
    /\ mappings' = main.list
    /\ main' = [main EXCEPT !.pc = "tui", !.req = NoCall, !.list = <<>>]
    /\ UNCHANGED <<file, file0, shutdown, sig, hook, proxy, cleanups, hist>>
    /\ UNCHANGED <<codecVars, mgrVars, conns>>

\* manager.rs:29 on the main thread: fs::write puts the new text in the file
MainWrite ==
    /\ Alive /\ main.pc = "write"
    /\ file' = main.new
    /\ main' = [main EXCEPT !.pc = main.then, !.new = <<>>, !.then = "", !.cleanup = FALSE]
    /\ cleanups' = IF main.cleanup THEN cleanups + 1 ELSE cleanups
    /\ UNCHANGED <<file0, shutdown, mappings, sig, hook, proxy, hist>>
    /\ UNCHANGED <<codecVars, mgrVars, conns>>

\* terminal.rs:114-118: the periodic check fires with mappings in the table;
\* the loop goes on to await check_port for each of them
TuiStatusTick ==
    /\ Alive /\ main.pc = "tui"
    /\ mappings # <<>>
    /\ main' = [main EXCEPT !.pc = "tick"]
    /\ UNCHANGED <<file, file0, shutdown, mappings, sig, hook, proxy, cleanups, hist>>
    /\ UNCHANGED <<codecVars, mgrVars, conns>>

\* the periodic check that sends the list after every round
status_check_AlwaysSend(table, probe) ==
    [mappings |-> [i \in DOMAIN table |-> [table[i] EXCEPT !.status = probe[i]]],
     sent |-> TRUE]

\* terminal.rs:116-127: the loop over a copy of the list: a mapping whose
\* check_port answer differs from its status takes the answer and sets
\* `changed`; the copy is sent only when `changed` is set
status_check(table, probe) ==
    LET changed == \E i \in DOMAIN table : probe[i] # table[i].status
    IN  [mappings |-> [i \in DOMAIN table |->
                          IF probe[i] # table[i].status
                          THEN [table[i] EXCEPT !.status = probe[i]]
                          ELSE table[i]],
         sent |-> changed]

\* terminal.rs:117-127: every check_port has answered; the list is published
\* when a status has changed
TuiTickDone(probe) ==
    /\ Alive /\ main.pc = "tick"
    /\ probe \in [DOMAIN mappings -> ProbeResults]
    /\ LET r == status_check(mappings, probe)
       IN  /\ mappings' = IF r.sent THEN r.mappings ELSE mappings
           /\ mlast' = [op |-> "tick", sent |-> r.sent]
    /\ main' = [main EXCEPT !.pc = "tui"]
    /\ UNCHANGED <<file, file0, shutdown, sig, hook, proxy, cleanups, hist>>
    /\ UNCHANGED <<codecVars, mprev, mops, conns>>

\* terminal.rs:44-46, 71-72 and 40: run_tui returns: Ok on 'q' and at the end
\* of the event stream, Err when draw fails (main.rs:69 keeps the result)
TuiLeave(how) ==
    /\ Alive /\ main.pc = "tui"
    /\ main' = [main EXCEPT !.pc = "send_shutdown", !.ops = 0,
                            !.result = IF how = "draw_error" THEN "Err" ELSE "Ok"]
    /\ UNCHANGED <<file, file0, shutdown, mappings, sig, hook, proxy, cleanups, hist>>
    /\ UNCHANGED <<codecVars, mgrVars, conns>>

\* a control-surface loop whose shutdown branch does not break
TuiSeesShutdown_Ignored ==
    /\ Alive /\ main.pc = "tui"
    /\ shutdown
    /\ UNCHANGED <<file, file0, shutdown, mappings, main, sig, hook, proxy, cleanups, hist>>
    /\ UNCHANGED <<codecVars, mgrVars, conns>>

\* terminal.rs:130-134: the loop sees the shutdown flag
TuiSeesShutdown ==
    /\ Alive /\ main.pc = "tui"
    /\ shutdown
    /\ main' = [main EXCEPT !.pc = "send_shutdown", !.ops = 0, !.result = "Ok"]
    /\ UNCHANGED <<file, file0, shutdown, mappings, sig, hook, proxy, cleanups, hist>>
    /\ UNCHANGED <<codecVars, mgrVars, conns>>

\* a main that sends the negation of the flag instead of true
MainSendShutdown_Toggle ==
    /\ Alive /\ main.pc = "send_shutdown"
    /\ shutdown' = ~shutdown
    /\ main' = [main EXCEPT !.pc = "restore_read"]
    /\ UNCHANGED <<file, file0, mappings, sig, hook, proxy, cleanups, hist>>
    /\ UNCHANGED <<codecVars, mgrVars, conns>>

\* main.rs:72
MainSendShutdown ==
    /\ Alive /\ main.pc = "send_shutdown"
    /\ shutdown' = TRUE
    /\ main' = [main EXCEPT !.pc = "restore_read"]
    /\ UNCHANGED <<file, file0, mappings, sig, hook, proxy, cleanups, hist>>
    /\ UNCHANGED <<codecVars, mgrVars, conns>>

\* a main that goes on to wait for the proxy without calling restore_all
MainRestoreRead_Skipped ==
    /\ Alive /\ main.pc = "restore_read"
    /\ main' = [main EXCEPT !.pc = "await_proxy"]
    /\ UNCHANGED <<file, file0, shutdown, mappings, sig, hook, proxy, cleanups, hist>>
    /\ UNCHANGED <<codecVars, mgrVars, conns>>

\* main.rs:75-76 with manager.rs:57-59: restore_all reads the file
MainRestoreRead ==
    /\ Alive /\ main.pc = "restore_read"
    /\ main' = [main EXCEPT !.pc = "write", !.then = "await_proxy",
                            !.cleanup = TRUE, !.new = Cleaned(file)]
    /\ UNCHANGED <<file, file0, shutdown, mappings, sig, hook, proxy, cleanups, hist>>
    /\ UNCHANGED <<codecVars, mgrVars, conns>>

\* main.rs:81-83: the proxy task has ended; main returns and the process exits
MainReturn ==
    /\ Alive /\ main.pc = "await_proxy"
    /\ proxy.pc \in {"failed", "done"}
    /\ ~Busy
    /\ main' = [main EXCEPT !.pc = "exited"]
    /\ hist' = [hist EXCEPT !.exit = "return"]
    /\ conns' = RuntimeDrop(conns)
    /\ UNCHANGED <<file, file0, shutdown, mappings, sig, hook, proxy, cleanups>>
    /\ UNCHANGED <<codecVars, mgrVars>>

\* a panic on the main thread while it is in the loop of run_tui
MainPanic ==
    /\ Alive /\ main.pc = "tui"
    /\ main' = [main EXCEPT !.pc = "hook_read", !.ops = 0]
    /\ hist' = [hist EXCEPT !.panics = @ + 1]
    /\ UNCHANGED <<file, file0, shutdown, mappings, sig, hook, proxy, cleanups>>
    /\ UNCHANGED <<codecVars, mgrVars, conns>>

\* cleanup.rs:7-9 on the main thread: the hook runs sync_cleanup
MainHookRead ==
    /\ Alive /\ main.pc = "hook_read"
    /\ main' = [main EXCEPT !.pc = "write", !.then = "unwind",
                            !.cleanup = TRUE, !.new = Cleaned(file)]
    /\ UNCHANGED <<file, file0, shutdown, mappings, sig, hook, proxy, cleanups, hist>>
    /\ UNCHANGED <<codecVars, mgrVars, conns>>

\* cleanup.rs:11: the default hook has printed; main unwinds and the process exits
MainUnwind ==
    /\ Alive /\ main.pc = "unwind"
    /\ ~Busy
    /\ main' = [main EXCEPT !.pc = "exited"]
    /\ hist' = [hist EXCEPT !.exit = "panic"]
    /\ conns' = RuntimeDrop(conns)
    /\ UNCHANGED <<file, file0, shutdown, mappings, sig, hook, proxy, cleanups>>
    /\ UNCHANGED <<codecVars, mgrVars>>

\* cleanup.rs:32 and 46: the signal arrives and its task wakes up
SignalArrives(k) ==
    /\ Alive /\ sig[k].pc = "wait"
    /\ sig' = [sig EXCEPT ![k].pc = "read"]
    /\ hist' = [hist EXCEPT !.signals = @ \cup {k}]
    /\ UNCHANGED <<file, file0, shutdown, mappings, main, hook, proxy, cleanups>>
    /\ UNCHANGED <<codecVars, mgrVars, conns>>

\* cleanup.rs:33 and 47 with manager.rs:73-77: sync_cleanup reads the file
SigRead(k) ==
    /\ Alive /\ sig[k].pc = "read"
    /\ sig' = [sig EXCEPT ![k] = [pc |-> "write", new |-> Cleaned(file)]]
    /\ UNCHANGED <<file, file0, shutdown, mappings, main, hook, proxy, cleanups, hist>>
    /\ UNCHANGED <<codecVars, mgrVars, conns>>

\* manager.rs:78: fs::write puts the cleaned text in the file
SigWrite(k) ==
    /\ Alive /\ sig[k].pc = "write"
    /\ file' = sig[k].new
    /\ sig' = [sig EXCEPT ![k] = [pc |-> "send", new |-> <<>>]]
    /\ cleanups' = cleanups + 1
    /\ UNCHANGED <<file0, shutdown, mappings, main, hook, proxy, hist>>
    /\ UNCHANGED <<codecVars, mgrVars, conns>>

\* cleanup.rs:34 and 48
SigSend(k) ==
    /\ Alive /\ sig[k].pc = "send"
    /\ shutdown' = TRUE
    /\ sig' = [sig EXCEPT ![k].pc = "done"]
    /\ UNCHANGED <<file, file0, mappings, main, hook, proxy, cleanups, hist>>
    /\ UNCHANGED <<codecVars, mgrVars, conns>>

\* a panic in a spawned task: the hook runs on that task's thread
\* (cleanup.rs:7-9); the runtime catches the panic and the process goes on
TaskPanic ==
    /\ Alive /\ hook.pc = "idle"
    /\ hist.panics < MaxTaskPanics
    /\ hook' = [hook EXCEPT !.pc = "read"]
    /\ hist' = [hist EXCEPT !.panics = @ + 1]
    /\ UNCHANGED <<file, file0, shutdown, mappings, main, sig, proxy, cleanups>>
    /\ UNCHANGED <<codecVars, mgrVars, conns>>

HookRead ==
    /\ Alive /\ hook.pc = "read"
    /\ hook' = [pc |-> "write", new |-> Cleaned(file)]
    /\ UNCHANGED <<file, file0, shutdown, mappings, main, sig, proxy, cleanups, hist>>
    /\ UNCHANGED <<codecVars, mgrVars, conns>>

HookWrite ==
    /\ Alive /\ hook.pc = "write"
    /\ file' = hook.new
    /\ hook' = [pc |-> "idle", new |-> <<>>]
    /\ cleanups' = cleanups + 1
    /\ UNCHANGED <<file0, shutdown, mappings, main, sig, proxy, hist>>
    /\ UNCHANGED <<codecVars, mgrVars, conns>>

\* server.rs:17-23: bind succeeds, or fails and run_proxy returns the error,
\* which the proxy task prints (main.rs:63-65)
ProxyBind(ok) ==
    /\ Alive /\ proxy.pc = "bind"
    /\ proxy' = [proxy EXCEPT !.pc = IF ok THEN "accept" ELSE "failed"]
    /\ UNCHANGED <<file, file0, shutdown, mappings, main, sig, hook, cleanups, hist>>
    /\ UNCHANGED <<codecVars, mgrVars, conns>>

\* server.rs:27-43: a connection is accepted and a task is spawned for it;
\* the task serves the connection and has read the request req from it
ProxyAccept(h, req) ==
    /\ Alive /\ proxy.pc = "accept"
    /\ conns[h].pc = "free"
    /\ \A g \in Handlers : g < h => conns[g].pc # "free"
    /\ conns' = [conns EXCEPT ![h] = [FreeConn EXCEPT !.pc = "recv", !.req = req]]
    /\ UNCHANGED <<file, file0, shutdown, mappings, main, sig, hook, proxy, cleanups, hist>>
    /\ UNCHANGED <<codecVars, mgrVars>>

\* server.rs:28: accept fails and `?` returns the error from run_proxy
ProxyAcceptError ==
    /\ Alive /\ proxy.pc = "accept"
    /\ proxy' = [proxy EXCEPT !.pc = "done"]
    /\ UNCHANGED <<file, file0, shutdown, mappings, main, sig, hook, cleanups, hist>>
    /\ UNCHANGED <<codecVars, mgrVars, conns>>

\* server.rs:44-48: the loop sees the shutdown flag and breaks
ProxySeesShutdown ==
    /\ Alive /\ proxy.pc = "accept"
    /\ shutdown
    /\ proxy' = [proxy EXCEPT !.pc = "done"]
    /\ UNCHANGED <<file, file0, shutdown, mappings, main, sig, hook, cleanups, hist>>
    /\ UNCHANGED <<codecVars, mgrVars, conns>>

NextProc ==
    \/ MainStart
    \/ MainEscalate
    \/ \E d \in ProcDomains, p \in Ports : TuiAddRequest(d, p)
    \/ \E st \in ProbeResults : TuiProbeDone(st)
    \/ MainAddRead
    \/ MainAddPublish
    \/ \E i \in 1..MaxTuiOps : TuiDelete(i)
    \/ MainRemoveRead
    \/ MainRemovePublish
    \/ MainWrite
    \/ \E how \in {"quit", "events_end", "draw_error"} : TuiLeave(how)
    \/ TuiSeesShutdown
    \/ MainSendShutdown
    \/ MainRestoreRead
    \/ MainReturn
    \/ MainPanic
    \/ MainHookRead
    \/ MainUnwind
    \/ \E k \in Signals : SignalArrives(k)
    \/ \E k \in Signals : SigRead(k)
    \/ \E k \in Signals : SigWrite(k)
    \/ \E k \in Signals : SigSend(k)
    \/ TaskPanic
    \/ HookRead
    \/ HookWrite
    \/ \E ok \in BOOLEAN : ProxyBind(ok)
    \/ ProxySeesShutdown

SpecProc == InitProc /\ [][NextProc]_vars

----------------------------------------------------------------------------
(* Claims at the process level *)

\* a text holds a managed entry line, or a start marker with an end marker
\* somewhere behind it
HasManagedText(c) ==
    \/ \E d \in Domains : CountLines(c, ManagedLine(d)) > 0
    \/ \E i, j \in 1..Len(c) :
            /\ i < j
            /\ MarkerLine(c[i].text, SENTINEL_START)
            /\ MarkerLine(c[j].text, SENTINEL_END)

\* C1: on every exit path (quit, end or error of the control-surface loop,
\* SIGINT, SIGTERM, panic), reads and writes succeeding, the hosts file holds
\* no managed entry and no sentinel block once the process has exited.
C1_CleanAtExit ==
    main.pc = "exited" => ~HasManagedText(file)

C11_ShutdownMonotonic ==
    /\ shutdown = FALSE
    /\ [][/\ shutdown => shutdown'
          /\ (main.pc = "send_shutdown" /\ main'.pc # "send_shutdown") => shutdown'
          /\ \A k \in Signals : (sig[k].pc = "send" /\ sig'[k].pc = "done") => shutdown']_vars

\* C11 witness: all three triggers have fired in one run
C11_Witness ==
    /\ shutdown
    /\ main.pc = "exited"
    /\ hist.exit = "return"
    /\ \A k \in Signals : sig[k].pc = "done"

\* C12: on every graceful shutdown path the hosts file is never restored
\* before the shutdown flag has been set (the listener stops, the flag is
\* propagated, then the hosts file is restored, then the process exits).
\* Stated for the runs without a panic: a cleanup has run only if the flag
\* is set.
C12_RestoreAfterFlag ==
    (hist.panics = 0 /\ cleanups > 0) => shutdown

\* C27: in every reachable state no two mappings of the routing table have
\* the same domain, whatever the interleaving of the control surface's adds
\* and removes with the signal tasks' and the panic hook's cleanups.
C27_UniqueDomains ==
    \A i, j \in 1..Len(mappings) :
        mappings[i].domain = mappings[j].domain => i = j

\* the read-modify-write sequences of the hosts file that have read the file
\* and not yet written it: the manager call of the main task (manager.rs:35-40,
\* 46-51, 57-60), the sync_cleanup of each signal task and of the panic hook
\* (manager.rs:73-78)
InFlight ==
    (IF main.pc = "write" THEN {"main"} ELSE {})
        \cup {k \in Signals : sig[k].pc = "write"}
        \cup (IF hook.pc = "write" THEN {"hook"} ELSE {})

\* C30: the process never interleaves two of its read-modify-write sequences
\* of the hosts file: at most one of them is between its read and its write.
C30_OneSequenceAtATime ==
    Cardinality(InFlight) <= 1

----------------------------------------------------------------------------
(* Request handler: handler.rs                                             *)
(*                                                                         *)
(* A header text is [text, caps]: its lowercase form, and whether it has   *)
(* an uppercase letter in it.  A Host value is [segs, visible]: the texts  *)
(* between its ':' characters, and whether it is visible ASCII.  A header  *)
(* is [name, value].  A request is [host, headers, uri_ok]: the Host value *)
(* (NoHost when there is none), the other headers in the order the header  *)
(* map yields them, and whether "http://127.0.0.1:<port>" followed by its  *)
(* path and query parses as a URI.                                         *)
(***************************************************************************)

\* headers a request or an upstream response carries besides Host
MaxHeaders == 2

\* handler.rs:10-19
HOP_BY_HOP ==
    {"connection", "keep-alive", "proxy-authenticate", "proxy-authorization",
     "te", "trailers", "transfer-encoding", "upgrade"}

Txt(t) == [text |-> t, caps |-> FALSE]
Caps(t) == [text |-> t, caps |-> TRUE]

\* str::to_lowercase
ToLower(t) == [t EXCEPT !.caps = FALSE]

\* String == String against a string that is lowercase
EqLower(t, lower) == ~t.caps /\ t.text = lower

\* handler.rs:37: headers().get(HOST) found nothing
NoHost == [segs |-> <<>>, visible |-> FALSE, present |-> FALSE]

HostValue(segs) == [segs |-> segs, visible |-> TRUE, present |-> TRUE]

\* a handler that takes a missing Host header for an empty host name
HostKey_MissingIsEmpty(req) ==
    IF ~req.host.present THEN Txt("")
    ELSE IF ~req.host.visible THEN NoCall
    ELSE ToLower(req.host.segs[1])

\* handler.rs:35-42: the lookup key, NoCall for None
HostKey(req) ==
    IF ~req.host.present THEN NoCall
    ELSE IF ~req.host.visible THEN NoCall
    ELSE ToLower(req.host.segs[1])

\* handler.rs:56: mappings.iter().find(|m| m.domain == host), 0 for None
FindMapping(snap, key) ==
    IF \E i \in 1..Len(snap) : EqLower(key, snap[i].domain)
    THEN CHOOSE i \in 1..Len(snap) :
            /\ EqLower(key, snap[i].domain)
            /\ \A j \in 1..(i - 1) : ~EqLower(key, snap[j].domain)
    ELSE 0

\* handler.rs:92-97 and 112-117: the headers that are copied
\* a comparison of the name as it is, without to_lowercase
IsHopByHop_CaseSensitive(name) == \E hop \in HOP_BY_HOP : EqLower(name, hop)

IsHopByHop(name) == \E hop \in HOP_BY_HOP : EqLower(ToLower(name), hop)

StripHopByHop(headers) == SelectSeq(headers, LAMBDA hd : ~IsHopByHop(hd.name))

\* handler.rs:23-27 with 47-50, 61-64, 81-84, 122-128: a response the handler
\* makes up itself
OwnResponse(status, body, names) ==
    [status |-> status, body |-> body, names |-> names, headers |-> <<>>]

\* a handler that copies the table entry by entry while the writer may be
\* replacing it, and misses the first entry
RouteRequest_Torn(c, table) ==
    LET torn == SubSeq(table, 2, Len(table))
        key == HostKey(c.req)
        i == FindMapping(torn, key)
    IN  IF key = NoCall
        THEN [c EXCEPT !.pc = "done",
                       !.resp = OwnResponse("400", "Missing Host header", NoCall)]
        ELSE IF i = 0
        THEN [c EXCEPT !.pc = "done", !.key = key, !.snap = torn,
                       !.resp = OwnResponse("404", "No mapping found for host", key)]
        ELSE [c EXCEPT !.pc = "upstream", !.key = key, !.snap = torn,
                       !.fwd = [ip |-> LOOPBACK, port |-> torn[i].port,
                                host |-> c.req.host,
                                headers |-> StripHopByHop(c.req.headers)]]

\* handler.rs:30-107: from the call to the await of client.request; the
\* connection task afterwards, for the table it finds
RouteRequest(c, table) ==
    LET key == HostKey(c.req)
        i == FindMapping(table, key)
    IN  IF key = NoCall
        THEN [c EXCEPT !.pc = "done",
                       !.resp = OwnResponse("400", "Missing Host header", NoCall)]
        ELSE IF i = 0
        THEN [c EXCEPT !.pc = "done", !.key = key, !.snap = table,
                       !.resp = OwnResponse("404", "No mapping found for host", key)]
        ELSE IF ~c.req.uri_ok
        THEN [c EXCEPT !.pc = "done", !.key = key, !.snap = table,
                       !.resp = OwnResponse("400", "Invalid URI", NoCall)]
        ELSE [c EXCEPT !.pc = "upstream", !.key = key, !.snap = table, !.sent = 1,
                       !.fwd = [ip |-> LOOPBACK, port |-> table[i].port,
                                host |-> c.req.host,
                                headers |-> StripHopByHop(c.req.headers)]]

\* handler.rs:108-121: the upstream answered
RelayResponse(c, up) ==
    [c EXCEPT !.pc = "done",
              !.up = up,
              !.resp = [status |-> up.status, body |-> "upstream", names |-> NoCall,
                        headers |-> StripHopByHop(up.headers)]]

\* a handler that sends the request a second time when the first one failed
BadGateway_Retry(c) ==
    IF c.sent < 2
    THEN [c EXCEPT !.sent = @ + 1]
    ELSE [c EXCEPT !.pc = "done",
                   !.resp = OwnResponse("502", "Failed to connect to 127.0.0.1", c.fwd.port)]

\* handler.rs:122-128: the request to the upstream failed
BadGateway(c) ==
    [c EXCEPT !.pc = "done",
              !.resp = OwnResponse("502", "Failed to connect to 127.0.0.1", c.fwd.port)]

----------------------------------------------------------------------------
(* Handler level: one request is handled against one table *)

HostValues ==
    {NoHost,
     [HostValue(<<Txt("a.localhost\\377")>>) EXCEPT !.visible = FALSE],
     HostValue(<<Txt("a.localhost")>>),
     HostValue(<<Caps("a.localhost")>>),
     HostValue(<<Txt("a.localhost"), Txt("8080")>>),
     HostValue(<<Txt("a.localhost"), Txt("80"), Txt("90")>>),
     HostValue(<<Txt("b.localhost")>>),
     HostValue(<<Txt(""), Txt("8080")>>)}

HeaderAlphabet ==
    {[name |-> Txt("connection"), value |-> "close"],
     [name |-> Caps("te"), value |-> "trailers"],
     [name |-> Txt("x-trace"), value |-> "1"]}

Requests ==
    {[host |-> hv, headers |-> hs, uri_ok |-> ok] :
        hv \in HostValues, hs \in BoundedSeqs(HeaderAlphabet, MaxHeaders), ok \in BOOLEAN}

Mapping(domain, port, status) == [domain |-> domain, port |-> port, status |-> status]

HandlerTables ==
    {<<>>,
     <<Mapping("a.localhost", 9000, "Active")>>,
     <<Mapping("a.localhost", 9000, "PortUnreachable")>>,
     <<Mapping("b.localhost", 9000, "Active"), Mapping("a.localhost", 9001, "Active")>>,
     <<Mapping("a.localhost", 9000, "Active"), Mapping("a.localhost", 9001, "Active")>>}

UpResponses ==
    {[status |-> st, headers |-> hs] :
        st \in {"200", "404"}, hs \in BoundedSeqs(HeaderAlphabet, MaxHeaders)}

InitHandler ==
    /\ mappings \in HandlerTables
    /\ \E r \in Requests :
         conns = [h \in Handlers |->
                    IF h = 1 THEN [FreeConn EXCEPT !.pc = "recv", !.req = r] ELSE FreeConn]
    /\ TasksStart
    /\ CodecIdle
    /\ MgrIdle
    /\ file = <<>>
    /\ file0 = <<>>

\* handler.rs:30-107: the request is routed
HandlerRoute(h) ==
    /\ main.pc # "exited"
    /\ conns[h].pc = "recv"
    /\ conns' = [conns EXCEPT ![h] = RouteRequest(conns[h], mappings)]
    /\ UNCHANGED <<file, file0, shutdown, mappings, main, sig, hook, proxy, cleanups, hist>>
    /\ UNCHANGED <<codecVars, mgrVars>>

\* handler.rs:107-121: client.request returns the response of the upstream
UpstreamResponds(h, up) ==
    /\ main.pc # "exited"
    /\ conns[h].pc = "upstream"
    /\ conns' = [conns EXCEPT ![h] = RelayResponse(conns[h], up)]
    /\ UNCHANGED <<file, file0, shutdown, mappings, main, sig, hook, proxy, cleanups, hist>>
    /\ UNCHANGED <<codecVars, mgrVars>>

\* handler.rs:107 and 122-128: client.request returns an error
UpstreamFails(h) ==
    /\ main.pc # "exited"
    /\ conns[h].pc = "upstream"
    /\ conns' = [conns EXCEPT ![h] = BadGateway(conns[h])]
    /\ UNCHANGED <<file, file0, shutdown, mappings, main, sig, hook, proxy, cleanups, hist>>
    /\ UNCHANGED <<codecVars, mgrVars>>

\* a connection task that returns the error of its connection to the accept
\* loop, as a `?` in the loop would
ConnectionError_EndsLoop(h) ==
    /\ main.pc # "exited"
    /\ conns[h].pc \in {"recv", "upstream"}
    /\ conns' = [conns EXCEPT ![h].pc = "error"]
    /\ proxy' = [proxy EXCEPT !.pc = "done"]
    /\ UNCHANGED <<file, file0, shutdown, mappings, main, sig, hook, cleanups, hist>>
    /\ UNCHANGED <<codecVars, mgrVars>>

\* server.rs:36-41: serve_connection returns an error (the client resets the
\* connection, sends what is no HTTP); the task prints it and ends
ConnectionError(h) ==
    /\ main.pc # "exited"
    /\ conns[h].pc \in {"recv", "upstream"}
    /\ conns' = [conns EXCEPT ![h].pc = "error"]
    /\ UNCHANGED <<file, file0, shutdown, mappings, main, sig, hook, proxy, cleanups, hist>>
    /\ UNCHANGED <<codecVars, mgrVars>>

NextHandler ==
    \/ \E h \in Handlers : HandlerRoute(h)
    \/ \E h \in Handlers, up \in UpResponses : UpstreamResponds(h, up)
    \/ \E h \in Handlers : UpstreamFails(h)

SpecHandler == InitHandler /\ [][NextHandler]_vars

----------------------------------------------------------------------------
(* Claims at the handler level *)

\* the texts that read as a port number
PortTexts == {"80", "90", "8080"}

\* the Host value with an optional trailing :port suffix stripped and the
\* remainder lowercased: the colon-separated segments that remain
StrippedHost(v) ==
    LET n == Len(v.segs)
        m == IF n >= 2 /\ v.segs[n].text \in PortTexts THEN n - 1 ELSE n
    IN  [i \in 1..m |-> ToLower(v.segs[i])]

\* the first mapping of a table whose domain equals the stripped Host value,
\* 0 if there is none
StrippedMatch(table, v) ==
    IF Len(StrippedHost(v)) = 1 THEN FindMapping(table, StrippedHost(v)[1]) ELSE 0

\* the connection task has handled its request
Handled(c) == c.req # NoCall /\ c.pc \in {"upstream", "done"}

\* C17: for a request with a Host header the lookup key is the Host value
\* with an optional trailing :port stripped and lowercased, and if the table
\* has a mapping whose domain equals that key the request is forwarded to
\* 127.0.0.1 on that mapping's port, whatever the mapping's status and the
\* port in the Host header.
C17_ForwardByHostKey ==
    \A h \in Handlers :
        (Handled(conns[h]) /\ conns[h].req.host.present) =>
            LET c == conns[h]
                i == StrippedMatch(mappings, c.req.host)
            IN  /\ <<c.key>> = StrippedHost(c.req.host)
                /\ i # 0 => /\ c.fwd # NoCall
                            /\ c.fwd.ip = LOOPBACK
                            /\ c.fwd.port = mappings[i].port

\* C18: a request with no Host header is answered with status 400 and no
\* upstream request is issued for it, whatever the routing table holds.
C18_NoHostIs400 ==
    \A h \in Handlers :
        (Handled(conns[h]) /\ ~conns[h].req.host.present) =>
            /\ conns[h].pc = "done"
            /\ conns[h].resp.status = "400"
            /\ conns[h].fwd = NoCall

\* a request without Host header was answered while the table had a mapping
C18_Witness ==
    \E h \in Handlers :
        /\ conns[h].pc = "done" /\ ~conns[h].req.host.present
        /\ mappings # <<>>

\* C19: a request whose lookup key (the Host value without an optional
\* trailing :port, lowercased) equals no domain of the table is answered
\* with status 404 naming the queried host, and no upstream request is
\* issued for it.
C19_NoMatchIs404 ==
    \A h \in Handlers :
        (/\ Handled(conns[h]) /\ conns[h].req.host.present
         /\ StrippedMatch(mappings, conns[h].req.host) = 0) =>
            /\ conns[h].pc = "done"
            /\ conns[h].resp.status = "404"
            /\ <<conns[h].resp.names>> = StrippedHost(conns[h].req.host)
            /\ conns[h].fwd = NoCall

\* C21: for a request that is routed the handler issues exactly one upstream
\* request and never retries; if that request fails the client receives
\* status 502 naming the target port, otherwise the upstream's status.
C21_OneUpstreamRequest ==
    \A h \in Handlers :
        LET c == conns[h]
        IN  /\ c.sent = IF c.fwd = NoCall THEN 0 ELSE 1
            /\ (c.pc = "done" /\ c.fwd # NoCall /\ c.up = NoCall) =>
                  (c.resp.status = "502" /\ c.resp.names = c.fwd.port)
            /\ (c.pc = "done" /\ c.up # NoCall) =>
                  (c.fwd # NoCall /\ c.resp.status = c.up.status)

\* a routed request whose upstream request failed was answered
C21_Witness ==
    \E h \in Handlers :
        /\ conns[h].pc = "done" /\ conns[h].fwd # NoCall /\ conns[h].up = NoCall
        /\ conns[h].resp.status = "502"

\* the headers of hs that are not hop-by-hop by the names of C20
Relayable(hs) ==
    {hs[i] : i \in {j \in 1..Len(hs) : ToLower(hs[j].name).text \notin HOP_BY_HOP}}

Count(hs, hd) == Cardinality({i \in 1..Len(hs) : hs[i] = hd})

\* from is delivered as to: no hop-by-hop header, every other header as
\* often as it came, with its name and value
DeliveredAs(from, to) ==
    /\ \A i \in 1..Len(to) : ToLower(to[i].name).text \notin HOP_BY_HOP
    /\ \A hd \in Relayable(from) : Count(to, hd) = Count(from, hd)
    /\ \A i \in 1..Len(to) : to[i] \in Relayable(from)

\* C20: no header whose name is, without regard to case, one of the eight
\* hop-by-hop names is delivered to the upstream in a forwarded request or
\* to the client in a relayed response; every other header is relayed with
\* its name and value unchanged.
C20_HopByHopStripped ==
    \A h \in Handlers :
        /\ conns[h].fwd # NoCall => DeliveredAs(conns[h].req.headers, conns[h].fwd.headers)
        /\ conns[h].up # NoCall => DeliveredAs(conns[h].up.headers, conns[h].resp.headers)

\* a request with a hop-by-hop header in capitals and another header was
\* forwarded, and a response with such headers was relayed
C20_Witness ==
    \E h \in Handlers :
        /\ conns[h].up # NoCall
        /\ \E i \in 1..Len(conns[h].req.headers) :
              conns[h].req.headers[i].name = Caps("te")
        /\ conns[h].fwd.headers # <<>>
        /\ \E i \in 1..Len(conns[h].up.headers) :
              IsHopByHop(conns[h].up.headers[i].name)
        /\ conns[h].resp.headers # <<>>

----------------------------------------------------------------------------
(* Serving level: the control surface publishes tables while the accept
   loop spawns connection tasks, until the user quits; no signal arrives
   and no task panics *)

\* the requests and the upstream answer of the serving level
ServeRequests ==
    {[host |-> HostValue(<<Txt("a.localhost")>>), headers |-> <<>>, uri_ok |-> TRUE]}

ServeResponses == {[status |-> "200", headers |-> <<>>]}

InitServe ==
    /\ file = <<>>
    /\ file0 = file
    /\ CodecIdle
    /\ MgrIdle
    /\ ProcStart

NextServe ==
    \/ MainStart
    \/ \E d \in ProcDomains, p \in Ports : TuiAddRequest(d, p)
    \/ \E st \in ProbeResults : TuiProbeDone(st)
    \/ MainAddRead
    \/ MainAddPublish
    \/ \E i \in 1..MaxTuiOps : TuiDelete(i)
    \/ MainRemoveRead
    \/ MainRemovePublish
    \/ MainWrite
    \/ TuiStatusTick
    \/ \E probe \in BoundedSeqs(ProbeResults, MaxTuiOps) : TuiTickDone(probe)
    \/ TuiLeave("quit")
    \/ MainSendShutdown
    \/ MainRestoreRead
    \/ MainReturn
    \/ \E ok \in BOOLEAN : ProxyBind(ok)
    \/ ProxyAcceptError
    \/ \E h \in Handlers, r \in ServeRequests : ProxyAccept(h, r)
    \/ ProxySeesShutdown
    \/ \E h \in Handlers : HandlerRoute(h)
    \/ \E h \in Handlers, up \in ServeResponses : UpstreamResponds(h, up)
    \/ \E h \in Handlers : UpstreamFails(h)
    \/ \E h \in Handlers : ConnectionError(h)

SpecServe == InitServe /\ [][NextServe]_vars

----------------------------------------------------------------------------
(* Control-surface level: the loop of run_tui alone, one key at a time, with
   hosts-file reads and writes that can fail.  The text of the add popup is
   a sequence of characters. *)

\* characters in the domain field of the popup
MaxInput == 2

\* a lowercase letter, an uppercase letter, a hyphen, and two characters
\* that are neither letter, digit nor hyphen
InputChars == {"a", "B", "-", ".", " "}

Digits == <<"0", "1", "2", "3", "4", "5", "6", "7", "8", "9">>

IsDigit(ch) == \E i \in 1..10 : Digits[i] = ch

DigitValue(ch) == (CHOOSE i \in 1..10 : Digits[i] = ch) - 1

\* str::trim on a sequence of characters
RECURSIVE TrimStart(_)
TrimStart(s) == IF s # <<>> /\ Head(s) = " " THEN TrimStart(Tail(s)) ELSE s

RECURSIVE TrimEnd(_)
TrimEnd(s) ==
    IF s # <<>> /\ s[Len(s)] = " " THEN TrimEnd(SubSeq(s, 1, Len(s) - 1)) ELSE s

TrimChars(s) == TrimEnd(TrimStart(s))

\* str::to_lowercase on a sequence of characters
LowerChars(s) == [i \in 1..Len(s) |-> IF s[i] = "B" THEN "b" ELSE s[i]]

\* char::is_ascii_alphanumeric
IsAlnum(ch) == ch \in {"a", "b", "B"} \/ IsDigit(ch)

RECURSIVE JoinChars(_)
JoinChars(s) == IF s = <<>> THEN "" ELSE Head(s) \o JoinChars(Tail(s))

RECURSIVE DecimalValue(_)
DecimalValue(s) ==
    IF s = <<>> THEN 0 ELSE 10 * DecimalValue(SubSeq(s, 1, Len(s) - 1)) + DigitValue(s[Len(s)])

\* str::parse::<u16> of digits: -1 for Err
ParseU16(s) ==
    IF s = <<>> \/ \E i \in 1..Len(s) : ~IsDigit(s[i]) THEN -1
    ELSE IF DecimalValue(s) > 65535 THEN -1
    ELSE DecimalValue(s)

Rejected(msg) == [ok |-> FALSE, msg |-> msg, mapping |-> NoCall]

\* input.rs:98-130
validate_input(domain_input, port_input) ==
    LET domain_base == LowerChars(TrimChars(domain_input))
        port == ParseU16(TrimChars(port_input))
    IN  IF domain_base = <<>>
        THEN Rejected("Domain cannot be empty")
        ELSE IF \E i \in 1..Len(domain_base) :
                    ~(IsAlnum(domain_base[i]) \/ domain_base[i] = "-")
        THEN Rejected("Domain can only contain letters, numbers, and hyphens")
        ELSE IF domain_base[1] = "-" \/ domain_base[Len(domain_base)] = "-"
        THEN Rejected("Domain cannot start or end with a hyphen")
        ELSE IF port = -1
        THEN Rejected("Port must be a number between 1 and 65535")
        ELSE IF port = 0
        THEN Rejected("Port must be between 1 and 65535")
        ELSE [ok |-> TRUE, msg |-> "",
              mapping |-> [domain |-> JoinChars(domain_base) \o ".localhost",
                           port |-> port, status |-> "Unknown"]]

\* what a key leaves behind: the list that is published, the file, the
\* status message, and whether check_port was awaited
KeyResult(table, f, msg, probed) ==
    [mappings |-> table, file |-> f, msg |-> msg, probed |-> probed]

\* a handler of Enter that probes and records the mapping before it looks at
\* what validate_input says
run_tui_enter_ValidateLate(table, f, domain_input, port_input, st, io) ==
    LET m == [domain |-> JoinChars(LowerChars(TrimChars(domain_input))) \o ".localhost",
              port |-> ParseU16(TrimChars(port_input)), status |-> st]
        v == validate_input(domain_input, port_input)
    IN  KeyResult(Append(table, m), f, IF v.ok THEN "Added" ELSE v.msg, TRUE)

\* terminal.rs:75-108: Enter in the add popup
run_tui_enter(table, f, domain_input, port_input, st, io) ==
    LET v == validate_input(domain_input, port_input)
    IN  IF ~v.ok
        THEN KeyResult(table, f, v.msg, FALSE)
        ELSE LET m == [v.mapping EXCEPT !.status = st]
                 r == HostsManager_add_entry(f, m.domain, io)
             IN  CASE r.ret = "Ok(true)" ->
                        KeyResult(Append(table, m), r.file, "Added", TRUE)
                   [] r.ret = "Ok(false)" ->
                        KeyResult(table, r.file, "Mapping already exists", TRUE)
                   [] OTHER ->
                        KeyResult(table, r.file, "Error", TRUE)

\* terminal.rs:56-69: 'd' in normal mode with row i selected
run_tui_delete(table, f, i, io) ==
    IF table # <<>> /\ i <= Len(table)
    THEN LET r == HostsManager_remove_entry(f, table[i].domain, io)
         IN  KeyResult(SubSeq(table, 1, i - 1) \o SubSeq(table, i + 1, Len(table)),
                       r.file, "Removed", FALSE)
    ELSE KeyResult(table, f, "", FALSE)

\* the texts of the popup fields
DomainInputs == BoundedSeqs(InputChars, MaxInput)

PortInputs ==
    {<<>>, <<"0">>, <<"x">>, <<" ", "8", "0">>, <<"9", "0", "0", "0">>,
     <<"6", "5", "5", "3", "5">>, <<"6", "5", "5", "3", "6">>}

\* the ways a call of the manager can go: no failure, read_to_string fails,
\* fs::write fails to open, fs::write fails after k lines
IoKinds == {IoOk, IoReadErr, IoOpenErr, IoWriteErr(0), IoWriteErr(2)}

\* the control surface enters its loop with a table on a hosts file
TuiStart(ls, table) ==
    /\ file = Styled(ls, "lf")
    /\ file0 = file
    /\ mappings = table
    /\ CodecIdle
    /\ mprev = NoCall /\ mops = 0
    /\ mlast = NoCall
    /\ shutdown = FALSE
    /\ main = [pc |-> "tui", new |-> <<>>, then |-> "", cleanup |-> FALSE,
               req |-> NoCall, list |-> <<>>, ops |-> 0, result |-> ""]
    /\ sig = [k \in {"ctrl_c", "sigterm"} |-> [pc |-> "wait", new |-> <<>>]]
    /\ hook = [pc |-> "idle", new |-> <<>>]
    /\ proxy = [pc |-> "accept"]
    /\ cleanups = 0
    /\ hist = [signals |-> {}, panics |-> 0, exit |-> ""]
    /\ conns = [h \in Handlers |-> FreeConn]

\* the key is handled: what it leaves behind
KeyDone(op, input, r) ==
    /\ mappings' = r.mappings
    /\ file' = r.file
    /\ mlast' = [op |-> op, input |-> input, msg |-> r.msg, probed |-> r.probed]
    /\ main' = [main EXCEPT !.ops = @ + 1]
    /\ UNCHANGED <<file0, shutdown, sig, hook, proxy, cleanups, hist, conns>>
    /\ UNCHANGED <<codecVars, mprev, mops>>

TuiEnter(domain_input, port_input, st, io) ==
    /\ Alive /\ main.pc = "tui"
    /\ KeyDone("enter", <<domain_input, port_input>>,
               run_tui_enter(mappings, file, domain_input, port_input, st, io))

TuiPressDelete(i, io) ==
    /\ Alive /\ main.pc = "tui"
    /\ i \in 1..Len(mappings)
    /\ KeyDone("delete", <<i>>, run_tui_delete(mappings, file, i, io))

----------------------------------------------------------------------------
(* Input level: one Enter in the add popup, for every text of its fields *)

InitInput ==
    \/ TuiStart(<<HostLine>>, <<>>)
    \/ TuiStart(<<SENTINEL_START, ManagedLine("a.localhost"), SENTINEL_END>>,
                <<Mapping("a.localhost", 9000, "Active")>>)

NextInput ==
    /\ main.ops = 0
    /\ \E di \in DomainInputs, pi \in PortInputs, st \in ProbeResults, io \in IoKinds :
          TuiEnter(di, pi, st, io)

SpecInput == InitInput /\ [][NextInput]_vars

\* the texts of the popup fail validation: the domain (without blanks around
\* it) is empty, holds a character that is no letter, digit or hyphen, or
\* starts or ends with a hyphen; or the port is no integer in 1..65535
FailsValidation(input) ==
    LET d == TrimChars(input[1])
        p == TrimChars(input[2])
    IN  \/ d = <<>>
        \/ \E i \in 1..Len(d) : d[i] \notin {"a", "b", "B", "-"} /\ ~IsDigit(d[i])
        \/ d[1] = "-" \/ d[Len(d)] = "-"
        \/ p = <<>>
        \/ \E i \in 1..Len(p) : ~IsDigit(p[i])
        \/ DecimalValue(p) \notin 1..65535

\* C23: an add request that fails validation (empty domain, a character
\* other than letter, digit and hyphen, a hyphen at the start or end, a port
\* that is no integer in 1..65535) is rejected before anything is changed:
\* the routing table and the hosts file are unchanged and no probe is made.
C23_InvalidAddRejected ==
    [][(mlast'.op = "enter" /\ FailsValidation(mlast'.input)) =>
          /\ mappings' = mappings
          /\ file' = file
          /\ ~mlast'.probed
          /\ mlast'.msg \notin {"Added", "Mapping already exists", "Error"}]_mlast

\* an Enter was rejected for its port while the table held a mapping
C23_Witness ==
    /\ mlast # NoCall /\ mlast.msg = "Port must be between 1 and 65535"
    /\ mappings # <<>>

----------------------------------------------------------------------------
(* Key level: the control surface handles one key after the other, starting
   with an empty table on a hosts file that may hold what an earlier run
   left; no signal arrives and nothing panics *)

\* the hosts files a run of the control surface starts from
TuiFiles ==
    {<<>>, <<HostLine>>,
     <<SENTINEL_START, ManagedLine("a.localhost"), SENTINEL_END>>,
     <<SENTINEL_START, SENTINEL_END, HostLine>>}

\* the texts of the domain field and of the port field
KeyDomains == {<<"a">>, <<"B">>}
KeyPort == <<"9", "0", "0", "0">>

InitKeys == \E ls \in TuiFiles : TuiStart(ls, <<>>)

NextKeys ==
    \/ /\ main.ops < MaxTuiOps
       /\ \E di \in KeyDomains, st \in ProbeResults, io \in IoKinds :
             TuiEnter(di, KeyPort, st, io)
    \/ /\ main.ops < MaxTuiOps
       /\ \E i \in 1..MaxTuiOps, io \in IoKinds : TuiPressDelete(i, io)
    \/ TuiStatusTick
    \/ \E probe \in BoundedSeqs(ProbeResults, MaxTuiOps) : TuiTickDone(probe)

SpecKeys == InitKeys /\ [][NextKeys]_vars

\* the domains of a table
TableDomains(table) == {table[i].domain : i \in 1..Len(table)}

\* the domain an Enter asks for
AskedDomain(input) == JoinChars(LowerChars(TrimChars(input[1]))) \o ".localhost"

\* C24: an add request has exactly one of three outcomes and is never
\* partially applied: Added (the hosts file gains the entry and the table
\* with the mapping appended is published), Duplicate (neither the file nor
\* the table changes), Error on a hosts-file failure (nothing changes); the
\* table is extended only after the write to the hosts file has succeeded.
C24_AddOutcomes ==
    [][(mlast'.op = "enter" /\ ~FailsValidation(mlast'.input)) =>
          LET d == AskedDomain(mlast'.input)
          IN  /\ mlast'.msg \in {"Added", "Mapping already exists", "Error"}
              /\ mlast'.msg = "Added" =>
                    /\ Len(mappings') = Len(mappings) + 1
                    /\ SubSeq(mappings', 1, Len(mappings)) = mappings
                    /\ mappings'[Len(mappings')].domain = d
                    /\ d \in ManagedDomains(file')
              /\ mlast'.msg = "Mapping already exists" =>
                    (mappings' = mappings /\ file' = file)
              /\ mlast'.msg = "Error" =>
                    (mappings' = mappings /\ file' = file)]_mlast

\* C25: a remove request reports Removed, NotFound or Error: a hosts-file
\* failure during the removal is never reported as a removal, and neither is
\* the removal of a domain that has no entry in the hosts file.
C25_RemoveOutcomes ==
    [][mlast'.op = "delete" =>
          LET d == mappings[mlast'.input[1]].domain
          IN  mlast'.msg = "Removed" =>
                  (d \in ManagedDomains(file) /\ d \notin ManagedDomains(file'))]_mlast

\* C26: while the control surface is between operations and the shutdown
\* flag is false, the domains of the routing table are the domains of the
\* managed entries of the hosts file.
C26_Lockstep ==
    (main.pc = "tui" /\ ~shutdown) => TableDomains(mappings) = ManagedDomains(file)

\* a round of the periodic check ends
TickRound == main.pc = "tick" /\ main'.pc = "tui"

\* C31: a periodic reachability update changes only status fields: the list
\* after it has the same domains and ports in the same order as the list it
\* started from, the list is replaced as a whole and only when a status has
\* changed (nothing is sent otherwise), and the hosts file is not touched.
C31_TickChangesOnlyStatus ==
    [][TickRound =>
          /\ file' = file
          /\ Len(mappings') = Len(mappings)
          /\ \A i \in 1..Len(mappings) :
                /\ mappings'[i].domain = mappings[i].domain
                /\ mappings'[i].port = mappings[i].port
          /\ mlast'.op = "tick"
          /\ mlast'.sent = (mappings' # mappings)
          /\ mlast'.sent =
                (\E i \in 1..Len(mappings) : mappings'[i].status # mappings[i].status)]_vars

\* a round over two mappings has sent a list in which one status differs
\* from the other
C31_Witness ==
    /\ main.pc = "tui"
    /\ mlast # NoCall /\ mlast.op = "tick" /\ mlast.sent
    /\ Len(mappings) = 2
    /\ mappings[1].status # mappings[2].status
    /\ ManagedDomains(file) = TableDomains(mappings)

----------------------------------------------------------------------------
(* Manager level with I/O failures: the calls of the manager level, each    *)
(* with any outcome of its file system calls                                *)

NextMgrIo ==
    \/ \E domain \in Domains, io \in IoKinds : MgrAddEntry(domain, io)
    \/ \E domain \in Domains, io \in IoKinds : MgrRemoveEntry(domain, io)
    \/ \E io \in IoKinds : MgrRestoreAll(io)
    \/ \E io \in IoKinds : MgrSyncCleanup(io)

SpecMgrIo == InitMgr /\ [][NextMgrIo]_vars

\* C28: a manager write is all-or-nothing: when add_entry, remove_entry or
\* restore_all returns an I/O error, the content of the hosts file is exactly
\* what it was before the call.
C28_ErrLeavesFileAlone ==
    (mlast # NoCall /\ mlast.op # "sync_cleanup" /\ mlast.ret = "Err")
        => file = mlast.pre

\* the two cleanups alone, each with any outcome of its file system calls
NextCleanupIo ==
    \/ \E io \in IoKinds : MgrRestoreAll(io)
    \/ \E io \in IoKinds : MgrSyncCleanup(io)

SpecCleanupIo == InitMgr /\ [][NextCleanupIo]_vars

\* C32: sync_cleanup agrees with restore_all and never fails: it returns
\* nothing whatever happens; when its read and its write succeed it leaves
\* the content restore_all leaves for the same file; when the read fails it
\* does not write and the file is as it was; a failed write is not handed on.
C32_SyncCleanupAgrees ==
    (mlast # NoCall /\ mlast.op = "sync_cleanup") =>
        /\ mlast.ret = "()"
        /\ mlast.io = "ok" =>
              LET r == HostsManager_restore_all(mlast.pre, IoOk)
              IN  /\ r.ret = "Ok(())"
                  /\ file = r.file
                  /\ mlast.hosts = r.hosts
        /\ mlast.io = "read_err" => (~mlast.wrote /\ file = mlast.pre)
        /\ mlast.io = "open_err" => file = mlast.pre

\* sync_cleanup has removed a managed entry from the file, after a first
\* sync_cleanup whose read had failed
C32_Witness ==
    /\ mlast # NoCall /\ mlast.op = "sync_cleanup" /\ mlast.io = "ok"
    /\ ManagedDomains(mlast.pre) # {}
    /\ file # mlast.pre
    /\ mprev # NoCall /\ mprev.op = "sync_cleanup" /\ mprev.io = "read_err"

----------------------------------------------------------------------------
(* Exit level: mappings are added and connections accepted until the user
   quits or SIGINT arrives; no upstream answers, so every routed request
   stays outstanding; with the scheduling the runtime and the kernel give *)

NextExit ==
    \/ MainStart
    \/ \E d \in ProcDomains, p \in Ports : TuiAddRequest(d, p)
    \/ \E st \in ProbeResults : TuiProbeDone(st)
    \/ MainAddRead
    \/ MainAddPublish
    \/ MainWrite
    \/ TuiLeave("quit")
    \/ TuiSeesShutdown
    \/ MainSendShutdown
    \/ MainRestoreRead
    \/ MainReturn
    \/ SignalArrives("ctrl_c")
    \/ SigRead("ctrl_c")
    \/ SigWrite("ctrl_c")
    \/ SigSend("ctrl_c")
    \/ \E ok \in BOOLEAN : ProxyBind(ok)
    \/ \E h \in Handlers, r \in ServeRequests : ProxyAccept(h, r)
    \/ ProxyAcceptError
    \/ ProxySeesShutdown
    \/ \E h \in Handlers : HandlerRoute(h)

\* the steps of the main task that no input is awaited for: synchronous code
\* (main.rs:72-78, manager.rs), the probe that connect() ends by itself
\* (input.rs:133-138), and the await of a proxy task that has returned
MainStep ==
    \/ \E st \in ProbeResults : TuiProbeDone(st)
    \/ MainAddRead
    \/ MainAddPublish
    \/ MainWrite
    \/ MainSendShutdown
    \/ MainRestoreRead
    \/ MainReturn

\* cleanup.rs:33-34: the signal task after the signal, synchronous code
SigStep == SigRead("ctrl_c") \/ SigWrite("ctrl_c") \/ SigSend("ctrl_c")

\* A spawned task that can run is run by the runtime; of the branches of a
\* tokio::select! that are ready again and again (terminal.rs:62-135,
\* server.rs:26-49) each one is taken at some time, select! picking the
\* branch to poll first at random.
FairExit ==
    /\ WF_vars(MainStep)
    /\ WF_vars(SigStep)
    /\ WF_vars(\E ok \in BOOLEAN : ProxyBind(ok))
    /\ SF_vars(ProxySeesShutdown)
    /\ SF_vars(TuiSeesShutdown)

SpecExit == InitServe /\ [][NextExit]_vars /\ FairExit

\* C14: once the shutdown flag is true the process exits at some time, with
\* the accept loop returned and main returned, also when connection
\* handlers or probes are outstanding.
C14_ExitsAfterShutdown ==
    shutdown ~> (main.pc = "exited" /\ proxy.pc \in {"failed", "done"})

\* the flag came from SIGINT while a handler waited for its upstream, the
\* control-surface loop saw it, and main has returned
C14_Witness ==
    /\ shutdown /\ sig["ctrl_c"].pc = "done"
    /\ main.pc = "exited" /\ main.result = "Ok" /\ hist.exit = "return"
    /\ proxy.pc = "done"
    /\ \E h \in Handlers : conns[h].pc = "cut" /\ conns[h].fwd # NoCall

\* C13: shutdown does not cancel the handlers in flight: the process waits
\* for every accepted connection to finish before it exits, so at exit no
\* connection task has been dropped before it answered.
C13_HandlersFinishBeforeExit ==
    main.pc = "exited" => \A h \in Handlers : conns[h].pc # "cut"

\* C16: while the writer replaces the routing table and handlers read it, the
\* list a handler obtains is the whole table as it is published at that
\* moment, and a list a handler holds is not changed by a later publication:
\* a handler's list changes only in the step that obtains it, and then it
\* is the published table.
C16_SnapshotIsOneGeneration ==
    [][\A h \in Handlers :
         /\ conns'[h].snap # conns[h].snap =>
               (conns[h].pc = "recv" /\ conns'[h].snap = mappings)
         /\ (conns[h].pc = "recv" /\ conns'[h].pc \in {"upstream", "done"}
               /\ conns'[h].key # NoCall) => conns'[h].snap = mappings]_vars

\* two handlers hold different generations, one of them older than the
\* published table
C16_Witness ==
    \E h, g \in Handlers :
        /\ conns[h].pc = "upstream" /\ conns[g].pc = "upstream"
        /\ conns[h].snap # conns[g].snap
        /\ conns[h].snap # mappings /\ conns[h].snap # <<>>

\* the step is an upstream error or a connection error of handler h
ErrorStep(h) ==
    \/ conns[h].pc # "error" /\ conns'[h].pc = "error"
    \/ conns[h].pc = "upstream" /\ conns'[h].pc = "done" /\ conns'[h].resp.status = "502"

\* C29: the accept loop stops only because the shutdown flag is true: in
\* every state where the accept loop has ended the flag is true; an accept
\* error does not end the loop.
C29_LoopEndsOnlyOnShutdown ==
    proxy.pc = "done" => shutdown

\* C22: an upstream error of one request, or an error on one accepted
\* connection, does not end the accept loop and changes nothing for the
\* other connections; after it the listener can still accept and the other
\* handlers can still complete.
C22_ErrorsStayLocal ==
    [][\A h \in Handlers : ErrorStep(h) =>
          /\ proxy' = proxy /\ shutdown' = shutdown /\ mappings' = mappings
          /\ \A g \in Handlers \ {h} : conns'[g] = conns[g]
          /\ (proxy.pc = "accept" /\ \E g \in Handlers : conns[g].pc = "free") =>
                (ENABLED (\E g \in Handlers, r \in ServeRequests : ProxyAccept(g, r)))'
          /\ \A g \in Handlers \ {h} : conns[g].pc = "upstream" =>
                (ENABLED (\E up \in ServeResponses : UpstreamResponds(g, up)))']_vars

\* a connection failed or its request got 502, and yet a connection
\* accepted after it was answered by its upstream and the listener accepts
C22_Witness ==
    /\ proxy.pc = "accept" /\ Alive
    /\ \E h, k \in Handlers :
          /\ h < k
          /\ \/ conns[h].pc = "error"
             \/ conns[h].pc = "done" /\ conns[h].resp.status = "502"
          /\ conns[k].pc = "done" /\ conns[k].resp.status = "200"

\* C15: a failure to bind the listener is fatal and aborts startup before
\* any state is mutated: after a bind failure no mapping is added to the
\* routing table and no entry is written to the hosts file.
C15_BindFailureFatal ==
    [][proxy.pc = "failed" =>
          /\ Len(mappings') <= Len(mappings)
          /\ ManagedDomains(file') \subseteq ManagedDomains(file)]_vars

====
